---- MODULE Spec2Model ----
(***************************************************************************)
(* birdcam: the catalog and orchestration layer of BirdcamProcessor        *)
(* (birdcam_continuous_pipeline.py), driven by its two entry points: the   *)
(* continuous loop (birdcam_continuous_pipeline.py __main__) and the       *)
(* hourly processor (birdcam_hourly_file_processor.py __main__).           *)
(*                                                                         *)
(* Each SQLite statement is its own transaction on a connection opened and *)
(* closed around it, so each statement is one step; a process can be       *)
(* terminated between any two steps.  The codec (ffmpeg), the uploader and *)
(* the classifier are opaque: their outcomes are nondeterministic inputs.  *)
(* File names are numbered in their sorted (lexical) order.  A failing      *)
(* SQLite statement is modelled where the code handles one, in              *)
(* catalog_new_files; elsewhere a process ends early only by an uncaught    *)
(* exception of the code itself or by being terminated from outside.        *)
(***************************************************************************)
EXTENDS Integers, Sequences, FiniteSets, TLC

\* ---------------------------------------------------------------- bounds
MaxFiles == 2
MaxDay == 1
MaxCrashes == 1
MaxTick == 1

\* bounds of the interval merger's inputs
MaxStamps == 3
MaxDuration == 4
MaxBuffer == 2

\* calls of group_and_save_clips for one source
MaxRuns == 2

\* calls of find_birds_and_save_clips for one source
MaxCalls == 3

\* bounds of the frame sampler's inputs: frame rate in tenths, seconds per
\* sample, frame count
MaxFps == 25
MaxRate == 2
MaxFrames == 6

\* raw detections over the sampled frames
MaxDetections == 2

\* ------------------------------------------------------ program constants
small_size == 65
default_trim_start == 4
default_confidence_threshold == 30
default_pre_buffer == 10
default_post_buffer == 10
default_min_gap == 10
process_hour == 3
EndLagHours == 3
DeferFromHour == 6
DeferToHour == 18
FirstWeekendDay == 5

Procs == {1, 2}
Files == 1..MaxFiles
Days == 0..(MaxDay - 1)
Halves == {"AM", "PM"}
HalfSeq == <<"AM", "PM">>
NoRow == "none"
NoDelay == 0 - 1
Statuses == {"new", "staged", "processed", "failed"}

\* dt.now() is modelled in whole hours since Monday 00:00 of the first week.
Today(t) == t \div 24
HourOf(t) == t % 24
Weekday(t) == (t \div 24) % 7

\* str(day) / day.strftime("%Y-%m-%d") / sqlite3's date adapter: the ISO text
\* of a date; distinct dates have distinct texts.
DateStr(d) == <<"date", d>>

\* The continuous loop is observed just before and just after process_hour of
\* each day; the hourly processor on a Friday from 17:00 (deferred publication)
\* into 18:00 (immediate publication).
ContinuousTimes == {d * 24 + h : d \in 1..MaxDay, h \in {process_hour - 1, process_hour}}
HourlyStart == 4 * 24 + 17
HourlyTimes == HourlyStart..(HourlyStart + MaxTick)
FirstSlot == HourlyStart - 5

\* The hourly processor is also observed on a Monday from 05:00 (immediate
\* publication) into 06:00 (deferred publication), and at every full hour of
\* a weekend.
MorningStart == DeferFromHour - 1
MorningTimes == MorningStart..(MorningStart + MaxTick)
FirstMorningSlot == MorningStart - EndLagHours - 1
MorningSlots == FirstMorningSlot..(MorningStart + MaxTick - EndLagHours)
WeekendTimes == (FirstWeekendDay * 24)..(FirstWeekendDay * 24 + 47)

Slots == (FirstSlot..(HourlyStart + MaxTick - EndLagHours)) \cup MorningSlots

VARIABLES
    program,                \* which __main__ runs: "continuous" or "hourly"
    process_daily_file,     \* the -d flag of the continuous loop
    now,                    \* the wall clock, in hours
    staging,                \* names of the *.mp4 files in the staging directory
    files,                  \* table files: file_name -> status, or NoRow
    daily_runs,             \* table daily_runs: set of run_date texts
    youtube_uploads,        \* table youtube_uploads: set of video names
    hourly_youtube_uploads, \* table hourly_youtube_uploads: rows per (date, hour); no key
    publish_delay,          \* table publish_delay: delay_time of row id = 1, or NoDelay
    combined,               \* processed/<day>/<day>_combined_bird_clips_{AM,PM}.mp4
    clips,                  \* processed/<day>/annotated_clips: the halves that have clips
    hourly,                 \* archive/processed/<day>/<day>_combined_bird_clips_<hh>.mp4
    pc,                     \* each process's position
    todo,                   \* each process's list being iterated
    ret,                    \* each process's last return value
    day,                    \* each process's day argument (yesterday)
    idx,                    \* each process's loop index / current hour slot
    lim,                    \* the hourly processor's end_time slot
    delay_time,             \* each process's delay_time read from publish_delay
    exc,                    \* the exception that ended each process, or "none"
    crashes,                \* terminations so far
    started,                \* ghost: process_single_video calls per file
    interrupted,            \* ghost: terminations while process_single_video ran, per file
    uploaded,               \* ghost: successful uploads per combined file
    concatBy,               \* ghost: processes that ran a concatenation for a key
    skipped,                \* ghost: keys for which a call stopped at the run-record check
    passFiles,              \* ghost: the staged list each process took in its last pass
    timestamps,             \* group_and_save_clips: the sorted detection times
    pre_buffer,             \* group_and_save_clips: seconds kept before a detection
    post_buffer,            \* group_and_save_clips: seconds kept after a detection
    min_gap,                \* group_and_save_clips: largest gap that is merged
    duration,               \* clip.duration of the source video
    merged_intervals,       \* group_and_save_clips: the intervals computed
    remerged,               \* the intervals computed from the representatives
    mphase,                 \* position of the interval merger: "off", "input", "merged", "again", "distinct"
    clip_writes,            \* output_path: clip name -> times write_videofile wrote it
    last_saved,             \* the clip names the latest group_and_save_clips run wrote
    runs,                   \* group_and_save_clips runs so far
    csv_exists,             \* <stem>_timestamps.csv exists in the output directory
    csv_rows,               \* the detection times stored in <stem>_timestamps.csv
    detect_calls,           \* detect_birds calls so far
    calls,                  \* find_birds_and_save_clips calls so far
    find_exc,               \* the exception the latest find_birds_and_save_clips call raised, or "none"
    opened,                 \* cv2.VideoCapture opened the source
    fps,                    \* CAP_PROP_FPS, in tenths of a frame per second
    output_rate,            \* extract_frames: seconds between samples
    total_frames,           \* CAP_PROP_FRAME_COUNT
    frames,                 \* extract_frames: the frame numbers requested
    sampler_exc,            \* the exception extract_frames raised, or "none"
    sphase,                 \* position of the frame sampler: "off", "input", "done"
    box,                    \* detect_false_positives: xmin, ymin, xmax, ymax
    fp_return,              \* detect_false_positives: the value returned
    detections,             \* detect_birds: the raw detections of the sampled frames
    confidence_threshold,   \* detect_birds: the threshold, in hundredths
    bird_times,             \* detect_birds: the rows returned as bird timestamps
    not_bird_times,         \* detect_birds: the rows returned as other objects
    dphase,                 \* position of the classifier adapter: "off", "box", "checked", "frames", "detected"
    all_clip_files,         \* combine_clips_ffmpeg: names of the *.mp4 files in clips_dir
    output_files,           \* combine_clips_ffmpeg: the output files asked for
    trim_start,             \* combine_clips_ffmpeg: the leading trim, in hundredths of a second
    file_lists,             \* the concat lists written to file_list.txt, one per output reached
    concat_exc,             \* the exception combine_clips_ffmpeg raised, or "none"
    cphase                  \* position of the aggregator: "off", "input", "done"

dbVars == <<files, daily_runs, youtube_uploads, hourly_youtube_uploads, publish_delay>>
fsVars == <<staging, combined, clips, hourly>>
locVars == <<pc, todo, ret, day, idx, lim, delay_time, exc>>
ghostVars == <<started, interrupted, uploaded, concatBy, skipped, passFiles>>
mergeVars == <<timestamps, pre_buffer, post_buffer, min_gap, duration, merged_intervals, remerged, mphase>>
clipVars == <<clip_writes, last_saved, runs>>
findVars == <<csv_exists, csv_rows, detect_calls, calls, find_exc>>
samplerVars == <<opened, fps, output_rate, total_frames, frames, sampler_exc, sphase>>
detectVars == <<box, fp_return, detections, confidence_threshold, bird_times, not_bird_times, dphase>>
concatVars == <<all_clip_files, output_files, trim_start, file_lists, concat_exc, cphase>>
engineVars == <<mergeVars, clipVars, findVars, samplerVars, detectVars, concatVars>>
envVars == <<program, process_daily_file, now>>
vars == <<envVars, dbVars, fsVars, locVars, crashes, ghostVars, engineVars>>

\* sorted(...) of a set of file names
RECURSIVE SortedSeq(_)
SortedSeq(S) ==
    IF S = {} THEN <<>>
    ELSE LET m == CHOOSE x \in S : \A y \in S : x <= y
         IN <<m>> \o SortedSeq(S \ {m})

FileStates == {"absent", "partial", "complete"}
Exists(f) == f # "absent"

DailyKey(d, h) == <<"daily", d, h>>
HourlyKey(s) == <<"hourly", s>>
Keys == {DailyKey(d, h) : d \in Days, h \in Halves} \cup {HourlyKey(s) : s \in Slots}

\* The interval merger is not running.
MergeOff ==
    /\ timestamps = <<>>
    /\ pre_buffer = 0
    /\ post_buffer = 0
    /\ min_gap = 0
    /\ duration = 0
    /\ merged_intervals = <<>>
    /\ remerged = <<>>
    /\ mphase = "off"

\* The state before any process is started, but for the clock and the hourly
\* files of the archive.
ProgramAtRest ==
    /\ program \in {"continuous", "hourly"}
    /\ process_daily_file \in BOOLEAN
    /\ (program = "hourly") => ~process_daily_file
    /\ staging = {}
    /\ files = [f \in Files |-> NoRow]
    /\ daily_runs = {}
    /\ youtube_uploads = {}
    /\ hourly_youtube_uploads = [s \in Slots |-> 0]
    /\ combined = [d \in Days |-> [h \in Halves |-> "absent"]]
    /\ clips = [d \in Days |-> {}]
    /\ pc = [p \in Procs |-> "off"]
    /\ todo = [p \in Procs |-> <<>>]
    /\ ret = [p \in Procs |-> "none"]
    /\ day = [p \in Procs |-> 0]
    /\ idx = [p \in Procs |-> 0]
    /\ lim = [p \in Procs |-> 0]
    /\ delay_time = [p \in Procs |-> 0]
    /\ exc = [p \in Procs |-> "none"]
    /\ crashes = 0
    /\ started = [f \in Files |-> 0]
    /\ interrupted = [f \in Files |-> 0]
    /\ uploaded = [k \in Keys |-> 0]
    /\ concatBy = [k \in Keys |-> {}]
    /\ skipped = {}
    /\ passFiles = [p \in Procs |-> {}]

\* The archive holds at most one hourly file, that of the hour `first`.
ArchiveUpTo(first) ==
    /\ hourly \in [Slots -> {"absent", "complete"}]
    /\ \A s \in Slots : s # first => hourly[s] = "absent"

ProgramInit ==
    /\ ProgramAtRest
    /\ now = IF program = "continuous" THEN 24 + process_hour - 1 ELSE HourlyStart
    /\ publish_delay = NoDelay
    /\ ArchiveUpTo(FirstSlot)
    /\ (program = "continuous") => hourly[FirstSlot] = "absent"

ClipOff ==
    /\ clip_writes = <<>>
    /\ last_saved = <<>>
    /\ runs = 0

FindOff ==
    /\ csv_exists = FALSE
    /\ csv_rows = <<>>
    /\ detect_calls = 0
    /\ calls = 0
    /\ find_exc = "none"

SamplerOff ==
    /\ opened = FALSE
    /\ fps = 0
    /\ output_rate = 0
    /\ total_frames = 0
    /\ frames = <<>>
    /\ sampler_exc = "none"
    /\ sphase = "off"

DetectOff ==
    /\ box = <<0, 0, 0, 0>>
    /\ fp_return = FALSE
    /\ detections = <<>>
    /\ confidence_threshold = 0
    /\ bird_times = <<>>
    /\ not_bird_times = <<>>
    /\ dphase = "off"

ConcatOff ==
    /\ all_clip_files = {}
    /\ output_files = 0
    /\ trim_start = 0
    /\ file_lists = <<>>
    /\ concat_exc = "none"
    /\ cphase = "off"

EngineOff == MergeOff /\ ClipOff /\ FindOff /\ SamplerOff /\ DetectOff /\ ConcatOff

\* The pipeline at rest, for the specifications of the detection engine.
Quiet == ProgramInit /\ program = "continuous" /\ ~process_daily_file

Init == ProgramInit /\ EngineOff

\* An uncaught exception, or a termination, ends the process: its locals are lost.
Die(p, e) ==
    /\ pc' = [pc EXCEPT ![p] = "dead"]
    /\ exc' = [exc EXCEPT ![p] = e]
    /\ todo' = [todo EXCEPT ![p] = <<>>]
    /\ ret' = [ret EXCEPT ![p] = "none"]
    /\ day' = [day EXCEPT ![p] = 0]
    /\ idx' = [idx EXCEPT ![p] = 0]
    /\ lim' = [lim EXCEPT ![p] = 0]
    /\ delay_time' = [delay_time EXCEPT ![p] = 0]

\* UPDATE files SET status = ? WHERE file_name = ?: no row, no change.
update_file_status(f, st) ==
    files' = [files EXCEPT ![f] = IF @ = NoRow THEN NoRow ELSE st]

\* ------------------------------------------------------------ environment
\* The camera drops a new recording into the staging directory; recordings are
\* named by their start time, so a new one sorts after those already there.
\* The daily aggregation reads and writes neither the staging directory nor
\* the table files, so recordings are let in in the runs without -d, and the
\* runs with -d find the staging directory empty.
Arrive ==
    /\ program = "continuous"
    /\ ~process_daily_file
    /\ \E f \in Files \ staging :
          /\ \A g \in staging : g < f
          /\ \A g \in Files : g < f => g \in staging
          /\ staging' = staging \cup {f}
    /\ UNCHANGED <<envVars, engineVars, dbVars, combined, clips, hourly, locVars, crashes, ghostVars>>

\* Time passes.
Tick ==
    /\ \E t \in (IF program = "continuous" THEN ContinuousTimes ELSE HourlyTimes) :
          t > now /\ now' = t
    /\ UNCHANGED <<program, process_daily_file, dbVars, fsVars, locVars, crashes, ghostVars, engineVars>>

\* ------------------------------------------------- start and termination
\* Variant of Start: initialize_database creates the daily_runs table anew.
StartFresh(p) ==
    /\ pc[p] \in {"off", "dead"}
    /\ pc' = [pc EXCEPT ![p] = IF program = "continuous" THEN "loop" ELSE "h_main"]
    /\ exc' = [exc EXCEPT ![p] = "none"]
    /\ daily_runs' = {}
    /\ UNCHANGED <<envVars, engineVars, files, youtube_uploads, hourly_youtube_uploads, publish_delay,
                   fsVars, todo, ret, day, idx, lim, delay_time, crashes, ghostVars>>

\* __main__: BirdcamProcessor(...) runs initialize_database (CREATE TABLE IF
\* NOT EXISTS: no change to existing tables) and enters the program.
Start(p) ==
    /\ pc[p] \in {"off", "dead"}
    /\ pc' = [pc EXCEPT ![p] = IF program = "continuous" THEN "loop" ELSE "h_main"]
    /\ exc' = [exc EXCEPT ![p] = "none"]
    /\ UNCHANGED <<envVars, engineVars, dbVars, fsVars, todo, ret, day, idx, lim, delay_time, crashes, ghostVars>>

\* The process is terminated from outside at any point.
Crash(p) ==
    /\ pc[p] \notin {"off", "dead"}
    /\ crashes < MaxCrashes
    /\ crashes' = crashes + 1
    /\ Die(p, "killed")
    /\ interrupted' = IF pc[p] = "proc_update"
                      THEN [interrupted EXCEPT ![Head(todo[p])] = @ + 1]
                      ELSE interrupted
    /\ UNCHANGED <<envVars, engineVars, dbVars, fsVars, started, uploaded, concatBy, skipped, passFiles>>

\* ------------------------------------------------------ catalog_new_files
\* for file in sorted(self.staging_dir.glob("*.mp4")): the list is taken once.
catalog_new_files(p) ==
    /\ pc[p] = "loop"
    /\ todo' = [todo EXCEPT ![p] = SortedSeq(staging)]
    /\ pc' = [pc EXCEPT ![p] = "cat_check"]
    /\ UNCHANGED <<envVars, engineVars, dbVars, fsVars, ret, day, idx, lim, delay_time, exc, crashes, ghostVars>>

\* Variant of the check: no file counts as cataloged, so every file of the
\* staging directory is staged again in every pass.
IsCatalogedNever(f) == FALSE

\* Variant of the check: only a processed file counts as cataloged, so a failed
\* file is staged again.
IsCatalogedDone(f) == files[f] = "processed"

\* check_file_status(file) is None when the table has no row of that name, and
\* a status (a non-empty string, which is true) otherwise.
IsCataloged(f) == files[f] # NoRow

\* if not self.check_file_status(file): a row with any status is skipped.
check_file_status(p) ==
    /\ pc[p] = "cat_check"
    /\ todo[p] # <<>>
    /\ IF ~IsCataloged(Head(todo[p]))
       THEN /\ pc' = [pc EXCEPT ![p] = "cat_insert"]
            /\ UNCHANGED todo
       ELSE /\ todo' = [todo EXCEPT ![p] = Tail(@)]
            /\ UNCHANGED pc
    /\ UNCHANGED <<envVars, engineVars, dbVars, fsVars, ret, day, idx, lim, delay_time, exc, crashes, ghostVars>>

CatalogDone(p) ==
    /\ pc[p] = "cat_check"
    /\ todo[p] = <<>>
    /\ pc' = [pc EXCEPT ![p] = "proc"]
    /\ UNCHANGED <<envVars, engineVars, dbVars, fsVars, todo, ret, day, idx, lim, delay_time, exc, crashes, ghostVars>>

\* Variant of the statement: INSERT OR REPLACE.
InsertOrReplace(row) == "new"

\* INSERT OR IGNORE on the primary key file_name: a row that is there stays as
\* it is.
InsertOrIgnore(row) == IF row = NoRow THEN "new" ELSE row

\* INSERT OR IGNORE INTO files (file_name, status) VALUES (?, 'new'); the
\* statement can raise (a locked or unwritable database), leaving no row.
catalog_file(p) ==
    /\ pc[p] = "cat_insert"
    /\ \E ok \in BOOLEAN :
          IF ok
          THEN /\ files' = [files EXCEPT ![Head(todo[p])] = InsertOrIgnore(@)]
               /\ pc' = [pc EXCEPT ![p] = "cat_update"]
          ELSE /\ pc' = [pc EXCEPT ![p] = "cat_except"]
               /\ UNCHANGED files
    /\ UNCHANGED <<envVars, engineVars, daily_runs, youtube_uploads, hourly_youtube_uploads, publish_delay,
                   fsVars, todo, ret, day, idx, lim, delay_time, exc, crashes, ghostVars>>

\* self.update_file_status(file, "staged"), or the statement raises.
StageFile(p) ==
    /\ pc[p] = "cat_update"
    /\ \E ok \in BOOLEAN :
          IF ok
          THEN /\ update_file_status(Head(todo[p]), "staged")
               /\ todo' = [todo EXCEPT ![p] = Tail(@)]
               /\ pc' = [pc EXCEPT ![p] = "cat_check"]
          ELSE /\ pc' = [pc EXCEPT ![p] = "cat_except"]
               /\ UNCHANGED <<files, todo>>
    /\ UNCHANGED <<envVars, engineVars, daily_runs, youtube_uploads, hourly_youtube_uploads, publish_delay,
                   fsVars, ret, day, idx, lim, delay_time, exc, crashes, ghostVars>>

\* except Exception: self.update_file_status(file, "failed"); continue
CatalogExcept(p) ==
    /\ pc[p] = "cat_except"
    /\ update_file_status(Head(todo[p]), "failed")
    /\ todo' = [todo EXCEPT ![p] = Tail(@)]
    /\ pc' = [pc EXCEPT ![p] = "cat_check"]
    /\ UNCHANGED <<envVars, engineVars, daily_runs, youtube_uploads, hourly_youtube_uploads, publish_delay,
                   fsVars, ret, day, idx, lim, delay_time, exc, crashes, ghostVars>>

\* ------------------------------------------------------ process_new_files
\* Variant of the query: WHERE status IN ('staged', 'failed').
StagedOrFailedRows == {f \in Files : files[f] \in {"staged", "failed"}}

\* Variant of the query: WHERE status IN ('staged', 'processed').
StagedOrProcessedRows == {f \in Files : files[f] \in {"staged", "processed"}}

\* SELECT file_name FROM files WHERE status = 'staged', sorted.
StagedRows == {f \in Files : files[f] = "staged"}

get_staged_files(p) ==
    /\ pc[p] = "proc"
    /\ todo' = [todo EXCEPT ![p] = SortedSeq(StagedRows)]
    /\ passFiles' = [passFiles EXCEPT ![p] = StagedRows]
    /\ pc' = [pc EXCEPT ![p] = "proc_next"]
    /\ UNCHANGED <<envVars, engineVars, dbVars, fsVars, ret, day, idx, lim, delay_time, exc, crashes,
                   started, interrupted, uploaded, concatBy, skipped>>

\* process_single_video(file, ...): returns a directory ("ok"), returns None
\* for a zero-duration input ("zero"), or raises ("raise").
process_single_video(p) ==
    /\ pc[p] = "proc_next"
    /\ todo[p] # <<>>
    /\ started' = [started EXCEPT ![Head(todo[p])] = @ + 1]
    /\ \E r \in {"ok", "zero", "raise"} : ret' = [ret EXCEPT ![p] = r]
    /\ pc' = [pc EXCEPT ![p] = "proc_update"]
    /\ UNCHANGED <<envVars, engineVars, dbVars, fsVars, todo, day, idx, lim, delay_time, exc, crashes,
                   interrupted, uploaded, concatBy, skipped, passFiles>>

\* Variant of the outcome: only an exception fails the file, as in
\* birdcam_incremental_processor.process_files.
StatusAfterException(r) == IF r = "raise" THEN "failed" ELSE "processed"

\* update_file_status(file, "processed") on success, "failed" on None or on
\* an exception.
StatusAfter(r) == IF r = "ok" THEN "processed" ELSE "failed"

\* Variant of the loop body: a failure ends the for loop.
RecordOutcomeStop(p) ==
    /\ pc[p] = "proc_update"
    /\ update_file_status(Head(todo[p]), StatusAfter(ret[p]))
    /\ todo' = [todo EXCEPT ![p] = IF ret[p] = "ok" THEN Tail(@) ELSE <<>>]
    /\ ret' = [ret EXCEPT ![p] = "none"]
    /\ pc' = [pc EXCEPT ![p] = "proc_next"]
    /\ UNCHANGED <<envVars, engineVars, daily_runs, youtube_uploads, hourly_youtube_uploads, publish_delay,
                   fsVars, day, idx, lim, delay_time, exc, crashes, ghostVars>>

RecordOutcome(p) ==
    /\ pc[p] = "proc_update"
    /\ update_file_status(Head(todo[p]), StatusAfter(ret[p]))
    /\ todo' = [todo EXCEPT ![p] = Tail(@)]
    /\ ret' = [ret EXCEPT ![p] = "none"]
    /\ pc' = [pc EXCEPT ![p] = "proc_next"]
    /\ UNCHANGED <<envVars, engineVars, daily_runs, youtube_uploads, hourly_youtube_uploads, publish_delay,
                   fsVars, day, idx, lim, delay_time, exc, crashes, ghostVars>>

ProcessDone(p) ==
    /\ pc[p] = "proc_next"
    /\ todo[p] = <<>>
    /\ pc' = [pc EXCEPT ![p] = "daily"]
    /\ UNCHANGED <<envVars, engineVars, dbVars, fsVars, todo, ret, day, idx, lim, delay_time, exc, crashes, ghostVars>>

\* ----------------------------- process_and_upload_daily_combined_file
\* Variant of the check: the run record is never found.
has_daily_run_never(run_date) == FALSE

\* SELECT 1 FROM daily_runs WHERE run_date = ?
has_daily_run(run_date) == run_date \in daily_runs

Yesterday == Today(now) - 1

\* The loop body after process_new_files: now = dt.now(); yesterday;
\* sync_processed_files(today); without -d, or before process_hour, nothing
\* is done for yesterday.
DailyNotDue(p) ==
    /\ pc[p] = "daily"
    /\ ~process_daily_file \/ HourOf(now) < process_hour
    /\ day' = [day EXCEPT ![p] = Yesterday]
    /\ pc' = [pc EXCEPT ![p] = "tail"]
    /\ UNCHANGED <<envVars, engineVars, dbVars, fsVars, todo, ret, idx, lim, delay_time, exc, crashes, ghostVars>>

\* if self.has_daily_run(str(day)): only a log line.
DailyAlreadyRun(p) ==
    /\ pc[p] = "daily"
    /\ process_daily_file /\ HourOf(now) >= process_hour
    /\ has_daily_run(DateStr(Yesterday))
    /\ day' = [day EXCEPT ![p] = Yesterday]
    /\ pc' = [pc EXCEPT ![p] = "tail"]
    /\ skipped' = skipped \cup {<<"daily", Yesterday>>}
    /\ UNCHANGED <<envVars, engineVars, dbVars, fsVars, todo, ret, idx, lim, delay_time, exc, crashes,
                   started, interrupted, uploaded, concatBy, passFiles>>

\* else: combined_files = self.process_daily_combined_file(day)
DailyBegin(p) ==
    /\ pc[p] = "daily"
    /\ process_daily_file /\ HourOf(now) >= process_hour
    /\ ~has_daily_run(DateStr(Yesterday))
    /\ day' = [day EXCEPT ![p] = Yesterday]
    /\ pc' = [pc EXCEPT ![p] = "d_sync"]
    /\ UNCHANGED <<envVars, engineVars, dbVars, fsVars, todo, ret, idx, lim, delay_time, exc, crashes, ghostVars>>

\* self.sync_files(date_dir_archive, date_dir): rsync copies the archived
\* annotated clips of the day into the processed directory.
sync_files(p) ==
    /\ pc[p] = "d_sync"
    /\ \E S \in SUBSET Halves :
          /\ clips[day[p]] \subseteq S
          /\ clips' = [clips EXCEPT ![day[p]] = S]
    /\ pc' = [pc EXCEPT ![p] = "d_combine"]
    /\ UNCHANGED <<envVars, engineVars, dbVars, staging, combined, hourly, todo, ret, day, idx, lim, delay_time, exc,
                   crashes, ghostVars>>

\* combine_clips_ffmpeg(clips_dir, [AM, PM]): a missing directory or no clip
\* returns at once; otherwise one concatenation per output file, AM first.
CombineNoClips(p) ==
    /\ pc[p] = "d_combine"
    /\ clips[day[p]] = {}
    /\ pc' = [pc EXCEPT ![p] = "d_record"]
    /\ UNCHANGED <<envVars, engineVars, dbVars, fsVars, todo, ret, day, idx, lim, delay_time, exc, crashes, ghostVars>>

CombineBegin(p) ==
    /\ pc[p] = "d_combine"
    /\ clips[day[p]] # {}
    /\ idx' = [idx EXCEPT ![p] = 1]
    /\ pc' = [pc EXCEPT ![p] = "d_concat"]
    /\ UNCHANGED <<envVars, engineVars, dbVars, fsVars, todo, ret, day, lim, delay_time, exc, crashes, ghostVars>>

\* ffmpeg ... .run(overwrite_output=True): on success the output file is
\* complete; on ffmpeg.Error the output is left as it was or partly written,
\* and the error is raised to the caller.
ConcatOutcomes(before) == {<<"ok", "complete">>, <<"error", before>>, <<"error", "partial">>}

ConcatDaily(p) ==
    /\ pc[p] = "d_concat"
    /\ LET d == day[p]
           h == HalfSeq[idx[p]]
       IN \E o \in ConcatOutcomes(combined[d][h]) :
            /\ combined' = [combined EXCEPT ![d][h] = o[2]]
            /\ concatBy' = [concatBy EXCEPT ![DailyKey(d, h)] = @ \cup {p}]
            /\ IF o[1] = "error"
               THEN pc' = [pc EXCEPT ![p] = "d_except"] /\ UNCHANGED idx
               ELSE IF idx[p] = Len(HalfSeq)
                    THEN pc' = [pc EXCEPT ![p] = "d_record"] /\ UNCHANGED idx
                    ELSE idx' = [idx EXCEPT ![p] = @ + 1] /\ UNCHANGED pc
    /\ UNCHANGED <<envVars, engineVars, dbVars, staging, clips, hourly, todo, ret, day, lim, delay_time, exc, crashes,
                   started, interrupted, uploaded, skipped, passFiles>>

\* Variant of the check: the combined files are taken to exist.
AnyCombinedAssumed(d) == TRUE

\* if any(combined_file.exists() for combined_file in combined_files)
AnyCombinedExists(d) == \E h \in Halves : Exists(combined[d][h])

\* Variant of record_daily_run: the INSERT is never committed.
record_daily_run_lost(p) ==
    /\ pc[p] = "d_record"
    /\ AnyCombinedExists(day[p])
    /\ idx' = [idx EXCEPT ![p] = 1]
    /\ pc' = [pc EXCEPT ![p] = "d_up"]
    /\ UNCHANGED <<envVars, engineVars, dbVars, fsVars, todo, ret, day, lim, delay_time, exc, crashes, ghostVars>>

\* self.record_daily_run(str(day)); return combined_files
\* INSERT OR IGNORE INTO daily_runs (run_date) VALUES (?)
record_daily_run(p) ==
    /\ pc[p] = "d_record"
    /\ AnyCombinedExists(day[p])
    /\ daily_runs' = daily_runs \cup {DateStr(day[p])}
    /\ idx' = [idx EXCEPT ![p] = 1]
    /\ pc' = [pc EXCEPT ![p] = "d_up"]
    /\ UNCHANGED <<envVars, engineVars, files, youtube_uploads, hourly_youtube_uploads, publish_delay,
                   fsVars, todo, ret, day, lim, delay_time, exc, crashes, ghostVars>>

\* else: return None; the caller's "for combined_file in combined_files"
\* then raises TypeError, which nothing catches.
DailyNoFile(p) ==
    /\ pc[p] = "d_record"
    /\ ~AnyCombinedExists(day[p])
    /\ Die(p, "TypeError: 'NoneType' object is not iterable")
    /\ UNCHANGED <<envVars, engineVars, dbVars, fsVars, crashes, ghostVars>>

\* except Exception: unlink both combined files; return None; the caller's
\* for loop then raises TypeError.
DailyExcept(p) ==
    /\ pc[p] = "d_except"
    /\ combined' = [combined EXCEPT ![day[p]] = [h \in Halves |-> "absent"]]
    /\ Die(p, "TypeError: 'NoneType' object is not iterable")
    /\ UNCHANGED <<envVars, engineVars, dbVars, staging, clips, hourly, crashes, ghostVars>>

NextUpload(p) ==
    IF idx[p] = Len(HalfSeq)
    THEN pc' = [pc EXCEPT ![p] = "tail"] /\ UNCHANGED idx
    ELSE idx' = [idx EXCEPT ![p] = @ + 1] /\ UNCHANGED pc

\* for combined_file in combined_files: if combined_file.exists():
\* check = self.upload_to_youtube_channel(...); on success the upload is
\* recorded in youtube_uploads and the day's annotated clips are removed.
\* else: "No new daily combined file to process."
UploadDaily(p) ==
    /\ pc[p] = "d_up"
    /\ LET d == day[p]
           k == DailyKey(day[p], HalfSeq[idx[p]])
       IN IF Exists(combined[d][HalfSeq[idx[p]]])
          THEN \E check \in BOOLEAN :
                 IF check
                 THEN /\ uploaded' = [uploaded EXCEPT ![k] = @ + 1]
                      /\ youtube_uploads' = youtube_uploads \cup {k}
                      /\ clips' = [clips EXCEPT ![d] = {}]
                 ELSE UNCHANGED <<uploaded, youtube_uploads, clips>>
          ELSE UNCHANGED <<uploaded, youtube_uploads, clips>>
    /\ NextUpload(p)
    /\ UNCHANGED <<envVars, engineVars, files, daily_runs, hourly_youtube_uploads, publish_delay,
                   staging, combined, hourly, todo, ret, day, lim, delay_time, exc, crashes,
                   started, interrupted, concatBy, skipped, passFiles>>

\* Variant of the pruning: the rows of the table files are deleted with the
\* processed directory.
delete_old_processed_rows(p) ==
    /\ pc[p] = "tail"
    /\ files' = [f \in Files |-> NoRow]
    /\ pc' = [pc EXCEPT ![p] = "loop"]
    /\ UNCHANGED <<envVars, engineVars, daily_runs, youtube_uploads, hourly_youtube_uploads, publish_delay,
                   fsVars, todo, ret, day, idx, lim, delay_time, exc, crashes, ghostVars>>

\* sync_processed_files(yesterday); delete_old_processed_files(two_days_ago):
\* shutil.rmtree of that day's processed directory; time.sleep(60 * 5).
delete_old_processed_files(p) ==
    /\ pc[p] = "tail"
    /\ LET old == day[p] - 1
       IN IF old \in Days
          THEN /\ combined' = [combined EXCEPT ![old] = [h \in Halves |-> "absent"]]
               /\ clips' = [clips EXCEPT ![old] = {}]
          ELSE UNCHANGED <<combined, clips>>
    /\ pc' = [pc EXCEPT ![p] = "loop"]
    /\ UNCHANGED <<envVars, engineVars, dbVars, staging, hourly, todo, ret, day, idx, lim, delay_time, exc, crashes,
                   ghostVars>>

Continuous(p) ==
    \/ catalog_new_files(p) \/ check_file_status(p) \/ CatalogDone(p)
    \/ catalog_file(p) \/ StageFile(p) \/ CatalogExcept(p)
    \/ get_staged_files(p) \/ process_single_video(p) \/ RecordOutcome(p) \/ ProcessDone(p)
    \/ DailyNotDue(p) \/ DailyAlreadyRun(p) \/ DailyBegin(p)
    \/ sync_files(p) \/ CombineNoClips(p) \/ CombineBegin(p) \/ ConcatDaily(p)
    \/ record_daily_run(p) \/ DailyNoFile(p) \/ DailyExcept(p)
    \/ UploadDaily(p) \/ delete_old_processed_files(p)

\* ------------------------------- birdcam_hourly_file_processor __main__
\* An hour is named by its slot: the hours since Monday 00:00.
SlotDay(s) == s \div 24
SlotHour(s) == s % 24
Slot(d, h) == d * 24 + h

\* The files archive/processed/202*/*.mp4; the last of the sorted list is the
\* latest hour that has a combined file.
ProcessedSlots == {s \in Slots : Exists(hourly[s])}
LastProcessed == CHOOSE s \in ProcessedSlots : \A t \in ProcessedSlots : t <= s

\* if last_processed_hour == 23: next day, hour 0; else: the next hour.
StartTime(last) ==
    IF SlotHour(last) = 23 THEN Slot(SlotDay(last) + 1, 0)
    ELSE Slot(SlotDay(last), SlotHour(last) + 1)

\* "Process up to 3 hours ago": if now.hour >= 3: today, now.hour - 3;
\* else: yesterday, 23 + now.hour - 3.
EndTime(t) ==
    IF HourOf(t) >= EndLagHours THEN Slot(Today(t), HourOf(t) - EndLagHours)
    ELSE Slot(Today(t) - 1, 23 + HourOf(t) - EndLagHours)

\* [...][-1] of an empty list raises IndexError.
HourlyNoFile(p) ==
    /\ pc[p] = "h_main"
    /\ ProcessedSlots = {}
    /\ Die(p, "IndexError: list index out of range")
    /\ UNCHANGED <<envVars, engineVars, dbVars, fsVars, crashes, ghostVars>>

\* if end_time < start_time: exit(0); else loop from start_time.
HourlyMain(p) ==
    /\ pc[p] = "h_main"
    /\ ProcessedSlots # {}
    /\ IF EndTime(now) < StartTime(LastProcessed)
       THEN pc' = [pc EXCEPT ![p] = "off"] /\ UNCHANGED <<idx, lim>>
       ELSE /\ idx' = [idx EXCEPT ![p] = StartTime(LastProcessed)]
            /\ lim' = [lim EXCEPT ![p] = EndTime(now)]
            /\ pc' = [pc EXCEPT ![p] = "h_check"]
    /\ UNCHANGED <<envVars, engineVars, dbVars, fsVars, todo, ret, day, delay_time, exc, crashes, ghostVars>>

\* while current_time <= end_time: ... ; the script ends after the loop.
HourlyDone(p) ==
    /\ pc[p] = "h_check"
    /\ idx[p] > lim[p]
    /\ pc' = [pc EXCEPT ![p] = "off"]
    /\ idx' = [idx EXCEPT ![p] = 0]
    /\ lim' = [lim EXCEPT ![p] = 0]
    /\ UNCHANGED <<envVars, engineVars, dbVars, fsVars, todo, ret, day, delay_time, exc, crashes, ghostVars>>

\* SELECT 1 FROM hourly_youtube_uploads WHERE date = ? AND hour = ?
has_hourly_youtube_upload_run(date, hour) ==
    \E s \in Slots : /\ DateStr(SlotDay(s)) = date
                     /\ SlotHour(s) = hour
                     /\ hourly_youtube_uploads[s] > 0

NextHour(p) ==
    /\ idx' = [idx EXCEPT ![p] = @ + 1]
    /\ pc' = [pc EXCEPT ![p] = "h_check"]

\* if self.has_hourly_youtube_upload_run(day, hour): only a log line.
HourlyAlreadyRun(p) ==
    /\ pc[p] = "h_check"
    /\ idx[p] <= lim[p]
    /\ has_hourly_youtube_upload_run(DateStr(SlotDay(idx[p])), SlotHour(idx[p]))
    /\ NextHour(p)
    /\ skipped' = skipped \cup {HourlyKey(idx[p])}
    /\ UNCHANGED <<envVars, engineVars, dbVars, fsVars, todo, ret, day, lim, delay_time, exc, crashes,
                   started, interrupted, uploaded, concatBy, passFiles>>

\* else: combined_file = self.process_hourly_combined_file(day, hour)
HourlyBegin(p) ==
    /\ pc[p] = "h_check"
    /\ idx[p] <= lim[p]
    /\ ~has_hourly_youtube_upload_run(DateStr(SlotDay(idx[p])), SlotHour(idx[p]))
    /\ pc' = [pc EXCEPT ![p] = "h_proc"]
    /\ UNCHANGED <<envVars, engineVars, dbVars, fsVars, todo, ret, day, idx, lim, delay_time, exc, crashes, ghostVars>>

\* process_hourly_combined_file: if not combined_file.exists():
\* combine_clips_ffmpeg(annotated_clips, [combined_file], hour=hour), which
\* returns at once when the hour has no clip; else the concatenation is skipped.
\* The hour keyword selects the clips of that hour; whether there are any is an
\* input.  An exception is caught and None is returned; nothing is unlinked.
process_hourly_combined_file(p) ==
    /\ pc[p] = "h_proc"
    /\ LET s == idx[p]
       IN IF Exists(hourly[s])
          THEN /\ pc' = [pc EXCEPT ![p] = "h_pub"]
               /\ UNCHANGED <<hourly, concatBy>>
          ELSE \E anyClips \in BOOLEAN :
                 IF ~anyClips
                 THEN /\ pc' = [pc EXCEPT ![p] = "h_pub"]
                      /\ UNCHANGED <<hourly, concatBy>>
                 ELSE \E o \in ConcatOutcomes(hourly[s]) :
                        /\ hourly' = [hourly EXCEPT ![s] = o[2]]
                        /\ concatBy' = [concatBy EXCEPT ![HourlyKey(s)] = @ \cup {p}]
                        /\ pc' = [pc EXCEPT ![p] = IF o[1] = "error" THEN "h_except"
                                                   ELSE "h_pub"]
    /\ UNCHANGED <<envVars, engineVars, dbVars, staging, combined, clips, todo, ret, day, idx, lim, delay_time, exc,
                   crashes, started, interrupted, uploaded, skipped, passFiles>>

\* except Exception: logger.error(...); return None; the caller's
\* combined_file.exists() then raises AttributeError, which nothing catches.
HourlyExcept(p) ==
    /\ pc[p] = "h_except"
    /\ Die(p, "AttributeError: 'NoneType' object has no attribute 'exists'")
    /\ UNCHANGED <<envVars, engineVars, dbVars, fsVars, crashes, ghostVars>>

\* if current_weekday < 5 and 6 <= current_hour < 18
Deferred(t) ==
    Weekday(t) < FirstWeekendDay /\ DeferFromHour <= HourOf(t) /\ HourOf(t) < DeferToHour

\* if combined_file.exists(): ... else nothing, and the script goes on.
HourlyNothing(p) ==
    /\ pc[p] = "h_pub"
    /\ ~Exists(hourly[idx[p]])
    /\ NextHour(p)
    /\ UNCHANGED <<envVars, engineVars, dbVars, fsVars, todo, ret, day, lim, delay_time, exc, crashes, ghostVars>>

\* Deferred publication: SELECT delay_time FROM publish_delay WHERE id = 1;
\* if self.cursor.fetchone() is None: INSERT ... (1, 0); delay_time = 0
\* else: delay_time = self.cursor.fetchone()[0] -- the only row was consumed by
\* the first fetchone(), so this one returns None and [0] raises TypeError.
PublishDeferred(p) ==
    /\ pc[p] = "h_pub"
    /\ Exists(hourly[idx[p]])
    /\ Deferred(now)
    /\ IF publish_delay = NoDelay
       THEN /\ publish_delay' = 0
            /\ delay_time' = [delay_time EXCEPT ![p] = 0]
            /\ pc' = [pc EXCEPT ![p] = "h_delay"]
            /\ UNCHANGED <<todo, ret, day, idx, lim, exc>>
       ELSE /\ Die(p, "TypeError: 'NoneType' object is not subscriptable")
            /\ UNCHANGED publish_delay
    /\ UNCHANGED <<envVars, engineVars, files, daily_runs, youtube_uploads, hourly_youtube_uploads,
                   fsVars, crashes, ghostVars>>

\* publish_at += td(seconds=delay_time);
\* UPDATE publish_delay SET delay_time = ? WHERE id = 1  (delay_time + 1)
StoreDelay(p) ==
    /\ pc[p] = "h_delay"
    /\ publish_delay' = IF publish_delay = NoDelay THEN NoDelay ELSE delay_time[p] + 1
    /\ pc' = [pc EXCEPT ![p] = "h_upload"]
    /\ UNCHANGED <<envVars, engineVars, files, daily_runs, youtube_uploads, hourly_youtube_uploads,
                   fsVars, todo, ret, day, idx, lim, delay_time, exc, crashes, ghostVars>>

\* Immediate publication: UPDATE publish_delay SET delay_time = 0 WHERE id = 1
PublishImmediate(p) ==
    /\ pc[p] = "h_pub"
    /\ Exists(hourly[idx[p]])
    /\ ~Deferred(now)
    /\ publish_delay' = IF publish_delay = NoDelay THEN NoDelay ELSE 0
    /\ pc' = [pc EXCEPT ![p] = "h_upload"]
    /\ UNCHANGED <<envVars, engineVars, files, daily_runs, youtube_uploads, hourly_youtube_uploads,
                   fsVars, todo, ret, day, idx, lim, delay_time, exc, crashes, ghostVars>>

\* check = self.upload_to_youtube_channel(combined_file, ...)
UploadHourly(p) ==
    /\ pc[p] = "h_upload"
    /\ \E check \in BOOLEAN :
          IF check
          THEN /\ uploaded' = [uploaded EXCEPT ![HourlyKey(idx[p])] = @ + 1]
               /\ youtube_uploads' = youtube_uploads \cup {HourlyKey(idx[p])}
               /\ pc' = [pc EXCEPT ![p] = "h_insert"]
               /\ UNCHANGED idx
          ELSE /\ NextHour(p)
               /\ UNCHANGED <<uploaded, youtube_uploads>>
    /\ UNCHANGED <<envVars, engineVars, files, daily_runs, hourly_youtube_uploads, publish_delay,
                   fsVars, todo, ret, day, lim, delay_time, exc, crashes, started, interrupted,
                   concatBy, skipped, passFiles>>

\* if check: INSERT OR IGNORE INTO hourly_youtube_uploads (date, hour) VALUES
\* (?, ?): the table has no key, so the row is always added.
RecordHourly(p) ==
    /\ pc[p] = "h_insert"
    /\ hourly_youtube_uploads' = [hourly_youtube_uploads EXCEPT ![idx[p]] = @ + 1]
    /\ NextHour(p)
    /\ UNCHANGED <<envVars, engineVars, files, daily_runs, youtube_uploads, publish_delay,
                   fsVars, todo, ret, day, lim, delay_time, exc, crashes, ghostVars>>

Hourly(p) ==
    \/ HourlyNoFile(p) \/ HourlyMain(p) \/ HourlyDone(p) \/ HourlyBegin(p)
    \/ process_hourly_combined_file(p) \/ HourlyExcept(p) \/ HourlyNothing(p)
    \/ PublishDeferred(p) \/ StoreDelay(p) \/ PublishImmediate(p)
    \/ UploadHourly(p) \/ RecordHourly(p)

\* One instance, which can be terminated and started again.  The script
\* starts after the last hour that has a combined file and a row of
\* hourly_youtube_uploads is written only when the hour's file exists, so a
\* single instance never meets a row for the hour it is about to process:
\* HourlyAlreadyRun is taken only when instances overlap.
Next == Arrive \/ Tick \/ Start(1) \/ Crash(1) \/ Continuous(1) \/ Hourly(1)

Spec == Init /\ [][Next]_vars

\* Two instances on one catalog database and one directory tree, none of them
\* terminated from outside, and none started again after an uncaught exception
\* has ended it.  No recording arrives, so each pass of the continuous loop
\* finds the staging directory and the staged list empty; the instances of the
\* hourly processor overlap within one hour of the clock.
Aggregation(p) ==
    \/ catalog_new_files(p) \/ CatalogDone(p) \/ get_staged_files(p) \/ ProcessDone(p)
    \/ DailyNotDue(p) \/ DailyAlreadyRun(p) \/ DailyBegin(p)
    \/ sync_files(p) \/ CombineNoClips(p) \/ CombineBegin(p) \/ ConcatDaily(p)
    \/ record_daily_run(p) \/ DailyNoFile(p) \/ DailyExcept(p)
    \/ UploadDaily(p) \/ delete_old_processed_files(p)

HourlyOverlap(p) ==
    \/ HourlyNoFile(p) \/ HourlyMain(p) \/ HourlyDone(p)
    \/ HourlyAlreadyRun(p) \/ HourlyBegin(p)
    \/ process_hourly_combined_file(p) \/ HourlyExcept(p) \/ HourlyNothing(p)
    \/ PublishDeferred(p) \/ StoreDelay(p)
    \/ UploadHourly(p) \/ RecordHourly(p)

NextTwo ==
    \/ program = "continuous" /\ Tick
    \/ \E p \in Procs : (pc[p] = "off" /\ Start(p)) \/ Aggregation(p) \/ HourlyOverlap(p)

SpecTwo == Init /\ [][NextTwo]_vars

\* The continuous loop without -d, under fair scheduling: a stopped process is
\* started again, a running one takes its next step, and the INSERT of
\* catalog_file does not fail forever.
InitFair == Init /\ program = "continuous" /\ ~process_daily_file

Pass(p) ==
    \/ catalog_new_files(p) \/ check_file_status(p) \/ CatalogDone(p)
    \/ catalog_file(p) \/ StageFile(p) \/ CatalogExcept(p)
    \/ get_staged_files(p) \/ process_single_video(p) \/ RecordOutcome(p) \/ ProcessDone(p)
    \/ DailyNotDue(p) \/ delete_old_processed_files(p)

NextFair == Arrive \/ Tick \/ Start(1) \/ Crash(1) \/ Pass(1)

FairSpec ==
    /\ InitFair
    /\ [][NextFair]_vars
    /\ WF_vars(Start(1))
    /\ WF_vars(Pass(1))
    /\ SF_vars(catalog_file(1) /\ pc'[1] = "cat_update")

\* Two instances of the continuous loop without -d on one staging directory
\* and one catalog database, none of them terminated.
NextTwoFiles == Arrive \/ (\E p \in Procs : (pc[p] = "off" /\ Start(p)) \/ Pass(p))

SpecTwoFiles == InitFair /\ [][NextTwoFiles]_vars

\* The continuous loop with -d while recordings of the first day are still
\* arriving in the staging directory (the camera uploads with a delay): one
\* instance, which can be terminated and started again.
FileDay(f) == 0

ArriveLate ==
    /\ program = "continuous"
    /\ \E f \in Files \ staging :
          /\ \A g \in staging : g < f
          /\ \A g \in Files : g < f => g \in staging
          /\ staging' = staging \cup {f}
    /\ UNCHANGED <<envVars, engineVars, dbVars, combined, clips, hourly, locVars, crashes, ghostVars>>

GateInit == Init /\ program = "continuous" /\ process_daily_file

NextGate == ArriveLate \/ Tick \/ Start(1) \/ Crash(1) \/ Continuous(1)

GateSpec == GateInit /\ [][NextGate]_vars

\* The hourly processor on a Monday morning: at 05:00 a combined file is
\* published at once, from 06:00 on its publication is deferred.  Earlier
\* days have left publish_delay without a row (no deferred publication yet)
\* or with 1 (one deferred publication).
TickMorning ==
    /\ \E t \in MorningTimes : t > now /\ now' = t
    /\ UNCHANGED <<program, process_daily_file, dbVars, fsVars, locVars, crashes, ghostVars, engineVars>>

MorningInit ==
    /\ ProgramAtRest
    /\ EngineOff
    /\ program = "hourly"
    /\ now = MorningStart
    /\ publish_delay \in {NoDelay, 1}
    /\ ArchiveUpTo(FirstMorningSlot)

NextMorning == TickMorning \/ Start(1) \/ Hourly(1)

MorningSpec == MorningInit /\ [][NextMorning]_vars

\* Two instances of the hourly processor on that morning (cron and a run by
\* hand), none of them started again after it has ended.
NextMorningTwo ==
    \/ TickMorning
    \/ \E p \in Procs : (pc[p] = "off" /\ Start(p)) \/ Hourly(p) \/ HourlyAlreadyRun(p)

MorningTwoSpec == MorningInit /\ [][NextMorningTwo]_vars

\* The hourly processor started at any full hour of a weekend, with Friday's
\* 12:00 file as the last one of the archive, up to the start of its loop:
\* the script reads the clock once and computes its start and end times.
ClockInit ==
    /\ ProgramAtRest
    /\ EngineOff
    /\ program = "hourly"
    /\ now \in WeekendTimes
    /\ publish_delay = NoDelay
    /\ ArchiveUpTo(FirstSlot)

NextClock == Start(1) \/ HourlyNoFile(1) \/ HourlyMain(1)

ClockSpec == ClockInit /\ [][NextClock]_vars

\* ------------------------------------------- find_birds.group_and_save_clips
\* The interval merger, on whole seconds.
Max(a, b) == IF a >= b THEN a ELSE b
Min(a, b) == IF a <= b THEN a ELSE b

\* Variant of the sweep: a detection is merged only when it is closer than
\* min_gap to the end of the open interval.
RECURSIVE SweepStrict(_, _, _, _)
SweepStrict(ts, start, end, acc) ==
    IF ts = <<>> THEN Append(acc, <<start, end>>)
    ELSE LET t == Head(ts)
         IN IF t - end < min_gap
            THEN SweepStrict(Tail(ts), start, Min(duration, t + post_buffer), acc)
            ELSE SweepStrict(Tail(ts), Max(0, t - pre_buffer), Min(duration, t + post_buffer),
                             Append(acc, <<start, end>>))

\* for t in timestamps[1:]: if t - end <= min_gap: end = min(clip.duration,
\* t + post_buffer); else: append (start, end) and seed a new interval;
\* after the loop the last interval is appended.
RECURSIVE Sweep(_, _, _, _)
Sweep(ts, start, end, acc) ==
    IF ts = <<>> THEN Append(acc, <<start, end>>)
    ELSE LET t == Head(ts)
         IN IF t - end <= min_gap
            THEN Sweep(Tail(ts), start, Min(duration, t + post_buffer), acc)
            ELSE Sweep(Tail(ts), Max(0, t - pre_buffer), Min(duration, t + post_buffer),
                       Append(acc, <<start, end>>))

MergedIntervalsUnguarded(ts) ==
    IF ts = <<>> THEN <<<<0, Min(duration, post_buffer)>>>>
    ELSE Sweep(Tail(ts), ts[1], Min(duration, ts[1] + post_buffer), <<>>)

\* if not timestamps: return; else the first interval is
\* (max(0, timestamps[0] - pre_buffer), min(clip.duration, timestamps[0] + post_buffer)).
MergedIntervals(ts) ==
    IF ts = <<>> THEN <<>>
    ELSE Sweep(Tail(ts), Max(0, ts[1] - pre_buffer), Min(duration, ts[1] + post_buffer), <<>>)

\* sorted(df_timestamps[...].tolist()) of a list, equal values kept.
RECURSIVE Insert(_, _)
Insert(x, sq) ==
    IF sq = <<>> THEN <<x>>
    ELSE IF x <= Head(sq) THEN <<x>> \o sq
    ELSE <<Head(sq)>> \o Insert(x, Tail(sq))

RECURSIVE Sorted(_)
Sorted(sq) == IF sq = <<>> THEN <<>> ELSE Insert(Head(sq), Sorted(Tail(sq)))

\* The input timestamps an interval covers.
Covered(iv) == {k \in 1..Len(timestamps) : iv[1] <= timestamps[k] /\ timestamps[k] <= iv[2]}

\* The first and the last input timestamp each interval covers, as one list.
RECURSIVE Representatives(_)
Representatives(ivs) ==
    IF ivs = <<>> THEN <<>>
    ELSE LET c == Covered(Head(ivs))
             first == CHOOSE k \in c : \A j \in c : k <= j
             last == CHOOSE k \in c : \A j \in c : j <= k
         IN (IF c = {} THEN <<>> ELSE <<timestamps[first], timestamps[last]>>)
            \o Representatives(Tail(ivs))

SortedLists(n, top) ==
    {sq \in UNION {[1..m -> 0..top] : m \in 0..n} :
        \A i \in 1..Len(sq) : \A j \in i..Len(sq) : sq[i] <= sq[j]}

\* The decimal digits of a natural number.
RECURSIVE Digits(_)
Digits(n) == IF n < 10 THEN <<n>> ELSE Append(Digits(n \div 10), n % 10)

Unpadded(s) == Digits(s)

\* f"{int(s):04d}": the digits of the whole seconds, zero-padded on the left
\* to at least 4 (the model's seconds are whole, so int(s) keeps them).
start_time_str(s) ==
    LET d == Digits(s)
    IN IF Len(d) >= 4 THEN d ELSE [i \in 1..(4 - Len(d)) |-> 0] \o d

\* Variant of the clip name: the start is written in whole minutes.
sub_clip_file_minutes(iv) == start_time_str(iv[1] \div 60)

\* output_path / f"{video_path.stem}_clip_{start_time_str}.mp4", for the one
\* source of the model: the name is told by the digits.
sub_clip_file(iv) == start_time_str(iv[1])

Wrote(acc, name) ==
    [writes |-> [n \in DOMAIN acc.writes \cup {name} |->
                    IF n = name
                    THEN (IF n \in DOMAIN acc.writes THEN acc.writes[n] ELSE 0) + 1
                    ELSE acc.writes[n]],
     saved |-> Append(acc.saved, name)]

RECURSIVE SaveSubclipsAlways(_, _)
SaveSubclipsAlways(ivs, acc) ==
    IF ivs = <<>> THEN acc
    ELSE SaveSubclipsAlways(Tail(ivs), Wrote(acc, sub_clip_file(Head(ivs))))

\* for i, (s, e) in enumerate(merged_intervals): a clip whose file exists is
\* skipped, any other is written.
RECURSIVE SaveSubclips(_, _)
SaveSubclips(ivs, acc) ==
    IF ivs = <<>> THEN acc
    ELSE LET name == sub_clip_file(Head(ivs))
         IN IF name \in DOMAIN acc.writes
            THEN SaveSubclips(Tail(ivs), acc)
            ELSE SaveSubclips(Tail(ivs), Wrote(acc, name))

progVars == <<envVars, dbVars, fsVars, locVars, crashes, ghostVars>>

\* The sorted lists of at most n values of S.
SortedListsOver(n, S) ==
    {sq \in UNION {[1..m -> S] : m \in 0..n} :
        \A i \in 1..Len(sq) : \A j \in i..Len(sq) : sq[i] <= sq[j]}

\* Detection times of a one-minute recording: the start, the end, and times
\* around the distances 10, 20 and 21 s that decide a merge with the default
\* parameters.
MinuteStamps == {0, 9, 10, 20, 21, 31, 42, 60}

\* A sorted list of detection times within the video and the three
\* parameters, all non-negative; or the source of 100 s with detections at
\* 5, 12 and 40 s and the default parameters; or a recording of one minute
\* with the default parameters.
MergeInputs ==
    \/ /\ duration = 60
       /\ timestamps \in SortedListsOver(MaxStamps, MinuteStamps)
       /\ pre_buffer = default_pre_buffer
       /\ post_buffer = default_post_buffer
       /\ min_gap = default_min_gap
    \/ /\ duration \in 1..MaxDuration
       /\ timestamps \in SortedLists(MaxStamps, duration)
       /\ pre_buffer \in 0..MaxBuffer
       /\ post_buffer \in 0..MaxBuffer
       /\ min_gap \in 0..MaxBuffer
    \/ /\ duration = 100
       /\ timestamps = <<5, 12, 40>>
       /\ pre_buffer = default_pre_buffer
       /\ post_buffer = default_post_buffer
       /\ min_gap = default_min_gap

MergeInit ==
    /\ Quiet
    /\ MergeInputs
    /\ merged_intervals = <<>>
    /\ remerged = <<>>
    /\ mphase = "input"
    /\ ClipOff /\ FindOff /\ SamplerOff /\ DetectOff /\ ConcatOff

\* The body of group_and_save_clips for the timestamps given: the intervals
\* are computed from the sorted list and their clips saved.
GroupAndSave(df_timestamps) ==
    /\ runs' = runs + 1
    /\ merged_intervals' = MergedIntervals(Sorted(df_timestamps))
    /\ LET out == SaveSubclips(merged_intervals', [writes |-> clip_writes, saved |-> <<>>])
       IN /\ clip_writes' = out.writes
          /\ last_saved' = out.saved
    /\ mphase' = "merged"

\* One call for the source: the intervals are computed and their clips saved.
\* A later call for the same source and timestamps finds the clips written.
group_and_save_clips ==
    /\ mphase \in {"input", "merged"}
    /\ runs < MaxRuns
    /\ GroupAndSave(timestamps)
    /\ UNCHANGED <<progVars, timestamps, pre_buffer, post_buffer, min_gap, duration, remerged,
                   findVars, samplerVars, detectVars, concatVars>>

\* The merger applied to the representatives of its own output.
MergeAgain ==
    /\ mphase = "merged"
    /\ remerged' = MergedIntervals(Sorted(Representatives(merged_intervals)))
    /\ mphase' = "again"
    /\ UNCHANGED <<progVars, timestamps, pre_buffer, post_buffer, min_gap, duration,
                   merged_intervals, clipVars, findVars, samplerVars, detectVars, concatVars>>

\* A list without its repeated values, in the order of first occurrence: the
\* timestamps when each sampled frame yields at most one accepted detection.
RECURSIVE Dedup(_)
Dedup(sq) ==
    IF sq = <<>> THEN <<>>
    ELSE LET rest == Dedup(SubSeq(sq, 1, Len(sq) - 1))
             x == sq[Len(sq)]
         IN IF \E i \in 1..Len(rest) : rest[i] = x THEN rest ELSE Append(rest, x)

\* The merger applied to the de-duplicated list of its input.
MergeDistinct ==
    /\ mphase = "merged"
    /\ remerged' = MergedIntervals(Sorted(Dedup(timestamps)))
    /\ mphase' = "distinct"
    /\ UNCHANGED <<progVars, timestamps, pre_buffer, post_buffer, min_gap, duration,
                   merged_intervals, clipVars, findVars, samplerVars, detectVars, concatVars>>

NextMerge == group_and_save_clips \/ MergeAgain \/ MergeDistinct

MergeSpec == MergeInit /\ [][NextMerge]_vars

\* ------------------------------------------------ find_birds.extract_frames
\* int(fps * output_rate), the fps being held in tenths.
frame_interval == (fps * output_rate) \div 10

\* list(range(i, stop, step)) for step > 0
RECURSIVE Range(_, _, _)
Range(i, stop, step) == IF i >= stop THEN <<>> ELSE <<i>> \o Range(i + step, stop, step)

IncludeLastNever(r) == r

\* if frames[-1] != total_frames - 1: frames.append(total_frames - 1)
IncludeLast(r) == IF r[Len(r)] # total_frames - 1 THEN Append(r, total_frames - 1) ELSE r

\* A source that opened reports its frame rate and frame count; one that did
\* not open reports 0 for both.
SamplerInit ==
    /\ Quiet
    /\ opened \in BOOLEAN
    /\ fps \in 0..MaxFps
    /\ total_frames \in 0..MaxFrames
    /\ ~opened => (fps = 0 /\ total_frames = 0)
    /\ output_rate \in 1..MaxRate
    /\ frames = <<>>
    /\ sampler_exc = "none"
    /\ sphase = "input"
    /\ MergeOff /\ ClipOff /\ FindOff /\ DetectOff /\ ConcatOff

\* The frame numbers are listed before the first frame is read: range()
\* refuses a step of 0 and frames[-1] an empty list.
extract_frames ==
    /\ sphase = "input"
    /\ sphase' = "done"
    /\ IF frame_interval = 0
       THEN /\ sampler_exc' = "ValueError: range() arg 3 must not be zero"
            /\ frames' = <<>>
       ELSE LET r == Range(0, total_frames, frame_interval)
            IN IF r = <<>>
               THEN /\ sampler_exc' = "IndexError: list index out of range"
                    /\ frames' = <<>>
               ELSE /\ sampler_exc' = "none"
                    /\ frames' = IncludeLast(r)
    /\ UNCHANGED <<progVars, mergeVars, clipVars, findVars, detectVars, concatVars,
                   opened, fps, output_rate, total_frames>>

NextSampler == extract_frames

SamplerSpec == SamplerInit /\ [][NextSampler]_vars

\* ---------------------------- find_birds.detect_false_positives, detect_birds
\* A coordinate that is not a number.
NaN == 0 - 1
isnan(x) == x = NaN

detect_false_positives_both(b) ==
    \/ \E i \in 1..4 : isnan(b[i])
    \/ b[3] - b[1] <= 0 \/ b[4] - b[2] <= 0
    \/ /\ 4 * (b[3] - b[1]) < b[4] - b[2] \/ b[3] - b[1] > 4 * (b[4] - b[2])
       /\ b[3] - b[1] < small_size /\ b[4] - b[2] < small_size

detect_false_positives_small(b) ==
    \/ \E i \in 1..4 : isnan(b[i])
    \/ b[3] - b[1] <= 0 \/ b[4] - b[2] <= 0
    \/ b[3] - b[1] < small_size \/ b[4] - b[2] < small_size

\* True for a coordinate that is NaN, for a width or height <= 0, and for an
\* aspect ratio (x2 - x1) / (y2 - y1) < 0.25 or > 4.0 together with a width
\* or a height < 65. The ratio is compared by cross-multiplication.
detect_false_positives(b) ==
    \/ \E i \in 1..4 : isnan(b[i])
    \/ b[3] - b[1] <= 0 \/ b[4] - b[2] <= 0
    \/ /\ 4 * (b[3] - b[1]) < b[4] - b[2] \/ b[3] - b[1] > 4 * (b[4] - b[2])
       /\ b[3] - b[1] < small_size \/ b[4] - b[2] < small_size

AllowListWide == {"bird", "cat", "dog", "person", "car"}

\* detections["name"] == "bird" | "cat" | "dog" | "person"
AllowList == {"bird", "cat", "dog", "person"}

\* The boxes given to detect_false_positives: pixel coordinates around the
\* limits of the rule, and boxes with a coordinate that is not a number.
Pixels == {0, 10, 15, 16, 60, 64, 65, 75, 200, 270, 280}
Boxes ==
    {<<x1, y1, x2, y2>> : x1 \in {0, 10}, y1 \in {0, 10}, x2 \in Pixels, y2 \in Pixels}
        \cup {<<NaN, 0, 60, 270>>, <<0, 0, 200, NaN>>}

\* Labels of the classifier: those of the list and one other.
Labels == AllowList \cup {"car"}

\* The raw detections of the classifier: frame time, label, confidence in
\* hundredths, box.
RawDetections ==
    [t : 0..1,
     name : Labels,
     confidence : {default_confidence_threshold - 1, default_confidence_threshold, 90},
     box : {<<0, 0, 60, 270>>, <<0, 0, 200, 270>>, <<NaN, 0, 60, 270>>}]

\* The detections of the sampled frames, in frame order.
FrameLists ==
    {sq \in UNION {[1..m -> RawDetections] : m \in 0..MaxDetections} :
        \A i \in 1..Len(sq) : \A j \in i..Len(sq) : sq[i].t <= sq[j].t}

DetectInit ==
    /\ Quiet
    /\ \/ /\ dphase = "box"
          /\ box \in Boxes
          /\ detections = <<>>
       \/ /\ dphase = "frames"
          /\ box = <<0, 0, 0, 0>>
          /\ detections \in FrameLists
    /\ confidence_threshold = default_confidence_threshold
    /\ fp_return = FALSE
    /\ bird_times = <<>>
    /\ not_bird_times = <<>>
    /\ MergeOff /\ ClipOff /\ FindOff /\ SamplerOff /\ ConcatOff

\* One call of detect_false_positives(box).
CheckBox ==
    /\ dphase = "box"
    /\ dphase' = "checked"
    /\ fp_return' = detect_false_positives(box)
    /\ UNCHANGED <<progVars, mergeVars, clipVars, findVars, samplerVars, concatVars,
                   box, detections, confidence_threshold, bird_times, not_bird_times>>

\* The rows of birds are those with a label of the list and a confidence
\* above the threshold, less the false positives; the rows of not_birds are
\* those with any other label and a confidence above the threshold.
detect_birds ==
    /\ dphase = "frames"
    /\ dphase' = "detected"
    /\ LET Bird(d) == /\ d.name \in AllowList
                      /\ d.confidence > confidence_threshold
                      /\ ~detect_false_positives(d.box)
           NotBird(d) == /\ d.name \notin AllowList
                         /\ d.confidence > confidence_threshold
       IN /\ bird_times' = SelectSeq(detections, Bird)
          /\ not_bird_times' = SelectSeq(detections, NotBird)
    /\ UNCHANGED <<progVars, mergeVars, clipVars, findVars, samplerVars, concatVars,
                   box, fp_return, detections, confidence_threshold>>

NextDetect == CheckBox \/ detect_birds

DetectSpec == DetectInit /\ [][NextDetect]_vars

\* ------------------------------------------ find_birds.combine_clips_ffmpeg
\* Order of file names, character by character.
RECURSIVE NameLess(_, _)
NameLess(a, b) ==
    IF a = <<>> THEN b # <<>>
    ELSE IF b = <<>> THEN FALSE
    ELSE IF Head(a) # Head(b) THEN Head(a) < Head(b)
    ELSE NameLess(Tail(a), Tail(b))

\* sorted(clips_dir.glob("*.mp4"))
RECURSIVE SortedNames(_)
SortedNames(S) ==
    IF S = {} THEN <<>>
    ELSE LET first == CHOOSE n \in S : \A o \in S \ {n} : NameLess(n, o)
         IN <<first>> \o SortedNames(S \ {first})

\* int(f.name.split('_')[2][0:2]): a clip's name is told by the two digits of
\* its hour followed by the digits of its start second.
HourOfClip(n) == 10 * n[1] + n[2]

ClipNames == {h \o start_time_str(st) : h \in {<<0, 9>>, <<1, 2>>, <<1, 3>>}, st \in {0, 30}}

\* Variant of the AM list: the clips of the hours before 12.
am_clips_before_noon == SelectSeq(SortedNames(all_clip_files), LAMBDA n : HourOfClip(n) < 12)

\* The clip lists zip() pairs with the output files: the AM and PM lists for
\* two output files; for a single output file the flat list of paths, whose
\* first element is then iterated as if it were a list.
am_clips == SelectSeq(SortedNames(all_clip_files), LAMBDA n : HourOfClip(n) <= 12)
pm_clips == SelectSeq(SortedNames(all_clip_files), LAMBDA n : HourOfClip(n) > 12)

\* The lines written to file_list.txt for a list of clips.
FileList(clip_files) ==
    [i \in 1..Len(clip_files) |->
        [file |-> clip_files[i], inpoint |-> (i = 1 /\ trim_start > 0)]]

ConcatInit ==
    /\ Quiet
    /\ all_clip_files \in SUBSET ClipNames
    /\ output_files \in {1, 2}
    /\ trim_start \in {0, default_trim_start}
    /\ file_lists = <<>>
    /\ concat_exc = "none"
    /\ cphase = "input"
    /\ MergeOff /\ ClipOff /\ FindOff /\ SamplerOff /\ DetectOff

\* One call. Without clips nothing is written. For two output files the AM
\* list is written and concatenated, then the PM list; an ffmpeg error ends
\* the call. For one output file the loop over the first path raises after
\* file_list.txt was opened for writing.
combine_clips_ffmpeg ==
    /\ cphase = "input"
    /\ cphase' = "done"
    /\ IF all_clip_files = {}
       THEN UNCHANGED <<file_lists, concat_exc>>
       ELSE IF output_files = 2
            THEN \/ /\ file_lists' = <<FileList(am_clips)>>
                    /\ concat_exc' = "ffmpeg.Error"
                 \/ /\ file_lists' = <<FileList(am_clips), FileList(pm_clips)>>
                    /\ concat_exc' \in {"none", "ffmpeg.Error"}
            ELSE /\ file_lists' = <<<<>>>>
                 /\ concat_exc' = "TypeError: 'PosixPath' object is not iterable"
    /\ UNCHANGED <<progVars, mergeVars, clipVars, findVars, samplerVars, detectVars,
                   all_clip_files, output_files, trim_start>>

NextConcat == combine_clips_ffmpeg

ConcatSpec == ConcatInit /\ [][NextConcat]_vars

\* ------------------------------------- find_birds.find_birds_and_save_clips
\* The output directory is new: no timestamps file, no clip.
FindInit ==
    /\ Quiet
    /\ duration \in 1..MaxDuration
    /\ pre_buffer \in 0..MaxBuffer
    /\ post_buffer \in 0..MaxBuffer
    /\ min_gap \in 0..MaxBuffer
    /\ timestamps = <<>>
    /\ merged_intervals = <<>>
    /\ remerged = <<>>
    /\ mphase = "input"
    /\ ClipOff /\ FindOff /\ SamplerOff /\ DetectOff /\ ConcatOff

reprocess_always == TRUE

\* reprocess = False; if csv_file.exists(): ... else: reprocess = True
reprocess == ~csv_exists

\* One call for the source. With the timestamps file present its rows are
\* loaded; otherwise detect_birds runs and either raises, which ends the call,
\* or returns the detection times, which are stored. The clips are then
\* exported from the timestamps in hand.
find_birds_and_save_clips ==
    /\ mphase \in {"input", "merged"}
    /\ calls < MaxCalls
    /\ calls' = calls + 1
    /\ IF reprocess
       THEN /\ detect_calls' = detect_calls + 1
            /\ \/ /\ find_exc' = "detect_birds raised"
                  /\ UNCHANGED <<csv_exists, csv_rows, timestamps, merged_intervals,
                                 mphase, clipVars>>
               \/ \E found \in SortedLists(MaxStamps, duration) :
                     /\ csv_exists' = TRUE
                     /\ csv_rows' = found
                     /\ timestamps' = found
                     /\ find_exc' = "none"
                     /\ GroupAndSave(found)
       ELSE /\ timestamps' = csv_rows
            /\ find_exc' = "none"
            /\ GroupAndSave(csv_rows)
            /\ UNCHANGED <<csv_exists, csv_rows, detect_calls>>
    /\ UNCHANGED <<progVars, pre_buffer, post_buffer, min_gap, duration, remerged,
                   samplerVars, detectVars, concatVars>>

NextFind == find_birds_and_save_clips

FindSpec == FindInit /\ [][NextFind]_vars

\* ================================================================= claims
Settled == {"processed", "failed"}

\* C1 (as stated): process_single_video is started at most once for each
\* cataloged file, whatever terminations and restarts happen.
C1_StartedAtMostOnce == \A f \in Files : started[f] <= 1

\* C1 (amended): process_single_video is started for a file at most once, plus
\* once for each termination that arrives after the pipeline was started for
\* that file and before its status update is recorded.
C1_StartedOncePerInterruption == \A f \in Files : started[f] <= 1 + interrupted[f]

C1_Witness == \E f \in Files : started[f] = 2 /\ interrupted[f] = 1 /\ files[f] \in Settled

\* C2: the combined file of each aggregation key is uploaded successfully at
\* most once, over all passes, terminations and restarts of one instance.
C2_UploadedAtMostOnce == \A k \in Keys : uploaded[k] <= 1

C2_Witness ==
    \E d \in Days, h \in Halves :
        /\ uploaded[DailyKey(d, h)] = 1
        /\ crashes > 0
        /\ <<"daily", d>> \in skipped

\* C3: when the run record of a key exists, the call of
\* process_and_upload_daily_combined_file / process_and_upload_hourly_combined_file
\* for that key concatenates nothing, uploads nothing and writes nothing to the
\* catalog or the file tree: it only returns (daily) or moves to the next hour.
C3_RunGating ==
    [][\A p \in Procs :
          /\ ( /\ pc[p] = "daily"
               /\ DateStr(Yesterday) \in daily_runs
               /\ pc'[p] \notin {"daily", "dead"} )
             => /\ pc'[p] = "tail"
                /\ UNCHANGED <<dbVars, fsVars, uploaded, concatBy>>
          /\ ( /\ pc[p] = "h_check"
               /\ idx[p] <= lim[p]
               /\ hourly_youtube_uploads[idx[p]] > 0
               /\ (idx'[p] # idx[p] \/ pc'[p] \notin {"h_check", "dead"}) )
             => /\ pc'[p] = "h_check"
                /\ idx'[p] = idx[p] + 1
                /\ UNCHANGED <<dbVars, fsVars, uploaded, concatBy>>
      ]_vars

C3_Witness ==
    \E d \in Days, p \in Procs :
        /\ <<"daily", d>> \in skipped
        /\ DateStr(d) \in daily_runs
        /\ pc[p] = "tail"

\* C4: a row of daily_runs for a day is written only by a process whose
\* concatenation for that day has returned without error, and only while at
\* least one combined file of that day exists.
C4_RecordAfterArtifact ==
    [][\A d \in Days :
          (DateStr(d) \notin daily_runs /\ DateStr(d) \in daily_runs')
          => /\ \E p \in Procs : pc[p] = "d_record" /\ day[p] = d
             /\ \E h \in Halves : Exists(combined[d][h])
      ]_vars

C4_Witness ==
    \E p \in Procs :
        /\ pc[p] = "d_up"
        /\ DateStr(day[p]) \in daily_runs
        /\ \E h \in Halves : combined[day[p]][h] = "complete"

\* C5 (as stated): of two processes that share one catalog and attempt the
\* daily aggregation of the same day, only one concatenates and uploads: the
\* other finds the run record and does neither.
C5_SecondAttemptSkips ==
    \A d \in Days, h \in Halves :
        /\ Cardinality(concatBy[DailyKey(d, h)]) <= 1
        /\ uploaded[DailyKey(d, h)] <= 1

\* C6 (as stated): every recording that is in the staging directory is
\* eventually processed or failed; none stays new or staged forever.
C6_EventuallySettled ==
    \A f \in Files : (f \in staging) ~> (files[f] \in Settled)

\* C7 (as stated): an upload that returns False leaves no run record of its
\* key behind.
C7_FailedUploadLeavesNoRecord ==
    [][\A p \in Procs :
          /\ ( /\ pc[p] = "d_up"
               /\ Exists(combined[day[p]][HalfSeq[idx[p]]])
               /\ uploaded' = uploaded
               /\ pc'[p] \in {"d_up", "tail"}
               /\ (idx'[p] # idx[p] \/ pc'[p] # pc[p]) )
             => DateStr(day[p]) \notin daily_runs'
          /\ (pc[p] = "h_upload" /\ pc'[p] = "h_check")
             => hourly_youtube_uploads'[idx[p]] = 0
      ]_vars

C9_NoFileDoesNotRaise ==
    \A p \in Procs :
        exc[p] \notin {"TypeError: 'NoneType' object is not iterable",
                       "AttributeError: 'NoneType' object has no attribute 'exists'"}

\* C10 (as stated): a file's status is one of new, staged, processed, failed,
\* and every change of status is new -> staged, staged -> processed or
\* staged -> failed.
C10_Transitions ==
    [][\A f \in Files :
          /\ files'[f] \in Statuses \cup {NoRow}
          /\ (files[f] # NoRow /\ files'[f] # files[f])
             => <<files[f], files'[f]>> \in {<<"new", "staged">>,
                                             <<"staged", "processed">>,
                                             <<"staged", "failed">>}
      ]_vars

\* C10 (amended): a file's status is one of new, staged, processed, failed,
\* and every change of status is new -> staged, staged -> processed,
\* staged -> failed, or new -> failed when cataloging the file raised before
\* it was staged.
C10_TransitionsWithCatalogFailure ==
    [][\A f \in Files :
          /\ files'[f] \in Statuses \cup {NoRow}
          /\ (files[f] # NoRow /\ files'[f] # files[f])
             => \/ <<files[f], files'[f]>> \in {<<"new", "staged">>,
                                                <<"staged", "processed">>,
                                                <<"staged", "failed">>}
                \/ /\ <<files[f], files'[f]>> = <<"new", "failed">>
                   /\ \E p \in Procs : pc[p] = "cat_except" /\ Head(todo[p]) = f
      ]_vars

C10_Witness == \E f \in Files : files[f] = "failed" /\ started[f] = 0

C12_PassSettlesAll ==
    \A p \in Procs :
        (pc[p] = "proc_next" /\ todo[p] = <<>>)
        => \A f \in passFiles[p] : files[f] \in Settled

C12_Witness ==
    \E p \in Procs, f, g \in Files :
        /\ pc[p] = "proc_next" /\ todo[p] = <<>>
        /\ {f, g} \subseteq passFiles[p]
        /\ f < g
        /\ files[f] = "failed"
        /\ files[g] = "processed"

\* C13: a failed file keeps the status failed, and process_single_video is
\* never started for it again.
C13_FailedIsFinal ==
    [][\A f \in Files :
          files[f] = "failed" => (files'[f] = "failed" /\ started'[f] = started[f])
      ]_vars

C13_Witness ==
    \E p \in Procs, f \in Files :
        /\ files[f] = "failed"
        /\ f \in staging
        /\ started[f] = 1
        /\ pc[p] = "proc_next"
        /\ f \notin passFiles[p]

\* C15: has_daily_run(d) is false at the start and until record_daily_run(d)
\* is executed, and true from then on, across terminations and restarts.
C15_RunRecordPersists ==
    /\ \A d \in Days : ~has_daily_run(DateStr(d))
    /\ [][\A d \in Days :
             /\ has_daily_run(DateStr(d)) => has_daily_run(DateStr(d))'
             /\ (~has_daily_run(DateStr(d)) /\ has_daily_run(DateStr(d))')
                => \E p \in Procs : pc[p] = "d_record" /\ day[p] = d /\ pc'[p] = "d_up"
       ]_vars

C15_Witness ==
    \E d \in Days :
        /\ has_daily_run(DateStr(d))
        /\ crashes > 0
        /\ pc[1] = "daily"
        /\ Yesterday = d

\* C16: a row of the table files is never deleted.
C16_RowsNeverDeleted ==
    [][\A f \in Files : files[f] # NoRow => files'[f] # NoRow]_vars

C16_Witness ==
    \E f \in Files :
        /\ files[f] \in Settled
        /\ crashes = 0
        /\ pc[1] = "loop"

\* C14: cataloging a file name that already has a row (catalog_file called
\* again, or catalog_new_files finding the file again) adds no row and leaves
\* the row's status as it is, whatever the status.
C14_CatalogAgainIsNoOp ==
    [][\A p \in Procs :
          /\ ( /\ pc[p] = "cat_insert"
               /\ pc'[p] = "cat_update"
               /\ files[Head(todo[p])] # NoRow )
             => files' = files
          /\ ( /\ pc[p] = "cat_check"
               /\ todo[p] # <<>>
               /\ files[Head(todo[p])] # NoRow
               /\ (todo'[p] # todo[p] \/ pc'[p] # pc[p]) )
             => (files' = files /\ pc'[p] = "cat_check" /\ todo'[p] = Tail(todo[p]))
      ]_vars

C14_Witness ==
    \E p \in Procs :
        /\ pc[p] = "cat_update"
        /\ files[Head(todo[p])] = "processed"

Merged == mphase \in {"merged", "again"}

\* C17 (as stated): the intervals are sorted by start and each interval starts
\* after the previous one ends, for all non-negative pre_buffer, post_buffer
\* and min_gap.
C17_IntervalsDisjoint ==
    Merged =>
        \A i \in 2..Len(merged_intervals) :
            /\ merged_intervals[i - 1][1] <= merged_intervals[i][1]
            /\ merged_intervals[i][1] > merged_intervals[i - 1][2]

\* C18 (as stated): every input timestamp lies within exactly one interval.
C18_CoveredExactlyOnce ==
    Merged =>
        \A k \in 1..Len(timestamps) :
            Cardinality({i \in 1..Len(merged_intervals) : k \in Covered(merged_intervals[i])}) = 1

\* C19 (as stated): merging the first and last covered timestamp of every
\* interval, with the same parameters, gives the same intervals again.
C19_MergeIdempotent == (mphase = "again") => remerged = merged_intervals

\* C20 (as stated): with post_buffer > 0 every interval has start >= 0,
\* end <= duration and end > start.
C20_IntervalsWellFormed ==
    (Merged /\ post_buffer > 0) =>
        \A i \in 1..Len(merged_intervals) :
            /\ merged_intervals[i][1] >= 0
            /\ merged_intervals[i][2] <= duration
            /\ merged_intervals[i][2] > merged_intervals[i][1]

\* C21: for the source of 100 s with detections at 5, 12 and 40 s and
\* buffers and gap of 10 s, the intervals are (0, 22) and (30, 50), and the
\* first extraction writes exactly the clips 0000 and 0030.
C21_Example ==
    (/\ Merged
     /\ duration = 100
     /\ timestamps = <<5, 12, 40>>
     /\ pre_buffer = 10 /\ post_buffer = 10 /\ min_gap = 10) =>
        /\ merged_intervals = <<<<0, 22>>, <<30, 50>>>>
        /\ DOMAIN clip_writes = {<<0, 0, 0, 0>>, <<0, 0, 3, 0>>}
        /\ (runs = 1) => last_saved = <<<<0, 0, 0, 0>>, <<0, 0, 3, 0>>>>

C21_Witness ==
    /\ mphase = "merged" /\ runs = 1
    /\ duration = 100 /\ timestamps = <<5, 12, 40>>
    /\ last_saved = <<<<0, 0, 0, 0>>, <<0, 0, 3, 0>>>>

\* C22: an empty timestamp list gives no interval and no clip; a single
\* timestamp t gives the one interval (max(0, t - pre_buffer),
\* min(duration, t + post_buffer)).
C22_EdgeCases ==
    Merged =>
        /\ (timestamps = <<>>) =>
              merged_intervals = <<>> /\ clip_writes = <<>> /\ last_saved = <<>>
        /\ (Len(timestamps) = 1) =>
              merged_intervals =
                  <<<<IF timestamps[1] >= pre_buffer THEN timestamps[1] - pre_buffer ELSE 0,
                      IF timestamps[1] + post_buffer <= duration
                      THEN timestamps[1] + post_buffer ELSE duration>>>>

C22_Witness ==
    /\ mphase = "merged"
    /\ Len(timestamps) = 1
    /\ timestamps[1] < pre_buffer
    /\ timestamps[1] + post_buffer > duration
    /\ Len(merged_intervals) = 1

\* C23: a second run of group_and_save_clips for the same source and
\* timestamps writes no clip, and no clip file is ever written twice.
C23_ExtractionIdempotent ==
    /\ (Merged /\ runs >= 2) => last_saved = <<>>
    /\ \A n \in DOMAIN clip_writes : clip_writes[n] <= 1

C23_Witness ==
    /\ runs = 2
    /\ Len(merged_intervals) >= 2
    /\ clip_writes # <<>>

C28_FramesRequested ==
    LET k == (fps * output_rate) \div 10
    IN (sphase = "done" /\ total_frames >= 1 /\ k >= 1) =>
          /\ sampler_exc = "none"
          /\ frames # <<>>
          /\ frames[Len(frames)] = total_frames - 1
          /\ \A i \in 1..(Len(frames) - 1) :
                frames[i] = (i - 1) * k /\ frames[i] < frames[i + 1]
          /\ \A j \in 0..(total_frames - 1) :
                (j % k = 0) => \E i \in 1..Len(frames) : frames[i] = j

C28_Witness ==
    /\ sphase = "done"
    /\ (fps * output_rate) \div 10 = 2
    /\ total_frames = 6
    /\ frames = <<0, 2, 4, 5>>

\* C29 (as stated): a source that did not open, or that reports zero frames,
\* gives an empty sequence and no error.
C29_UnusableSourceIsEmpty ==
    (sphase = "done" /\ (~opened \/ total_frames = 0)) =>
        frames = <<>> /\ sampler_exc = "none"

\* C25: the box (0, 0, 60, 270) is a false positive and the box
\* (0, 0, 200, 270) is not.
C25_Examples ==
    (dphase = "checked") =>
        /\ (box = <<0, 0, 60, 270>>) => fp_return
        /\ (box = <<0, 0, 200, 270>>) => ~fp_return

C25_Witness == dphase = "checked" /\ box = <<0, 0, 60, 270>> /\ fp_return

\* C26 (as stated): for a box of numbers with positive width and height the
\* result is True exactly when the aspect ratio is outside [0.25, 4.0] and
\* the width and the height are both below 65.
C26_BothSmall ==
    (/\ dphase = "checked"
     /\ \A i \in 1..4 : box[i] # NaN
     /\ box[3] > box[1] /\ box[4] > box[2]) =>
        (fp_return <=>
            /\ 4 * (box[3] - box[1]) < box[4] - box[2] \/ box[3] - box[1] > 4 * (box[4] - box[2])
            /\ box[3] - box[1] < 65 /\ box[4] - box[2] < 65)

\* C26 (amended): the result is True exactly when the aspect ratio is outside
\* [0.25, 4.0] and the width or the height is below 65; a box whose aspect
\* ratio lies within [0.25, 4.0] is never rejected.
C26_EitherSmall ==
    (/\ dphase = "checked"
     /\ \A i \in 1..4 : box[i] # NaN
     /\ box[3] > box[1] /\ box[4] > box[2]) =>
        (fp_return <=>
            /\ 4 * (box[3] - box[1]) < box[4] - box[2] \/ box[3] - box[1] > 4 * (box[4] - box[2])
            /\ box[3] - box[1] < 65 \/ box[4] - box[2] < 65)

C26_Witness ==
    /\ dphase = "checked"
    /\ box = <<0, 0, 10, 65>>
    /\ fp_return

\* C27: a raw detection is a row of the bird timestamps exactly when its
\* label is bird, cat, dog or person, its confidence is above the threshold
\* and detect_false_positives is False for its box; no other label gives a row.
C27_EventFilter ==
    (dphase = "detected") =>
        /\ \A i \in 1..Len(detections) :
              (\E j \in 1..Len(bird_times) : bird_times[j] = detections[i])
                  <=> (/\ detections[i].name \in {"bird", "cat", "dog", "person"}
                       /\ detections[i].confidence > confidence_threshold
                       /\ ~detect_false_positives(detections[i].box))
        /\ \A j \in 1..Len(bird_times) :
              \E i \in 1..Len(detections) : bird_times[j] = detections[i]

C27_Witness ==
    /\ dphase = "detected"
    /\ Len(detections) = 2
    /\ detections[1].name = "car" /\ detections[1].confidence = 90
    /\ detections[2].name = "cat" /\ detections[2].confidence = 90
    /\ detections[2].box = <<0, 0, 200, 270>>
    /\ bird_times = <<detections[2]>>

\* The clips of an output bucket: all clips for one output file, those of the
\* hours up to 12 and those after 12 for two.
C30_Bucket(b) ==
    IF output_files = 1 THEN all_clip_files
    ELSE {n \in all_clip_files : IF b = 1 THEN 10 * n[1] + n[2] <= 12 ELSE 10 * n[1] + n[2] > 12}

\* C30 (as stated): when no concatenation fails, a concat list is written for
\* each output bucket; it holds the bucket's clips in ascending file-name
\* order, and the leading trim is on its first clip and on no other.
C30_EditList ==
    (cphase = "done" /\ all_clip_files # {} /\ concat_exc # "ffmpeg.Error") =>
        /\ Len(file_lists) = output_files
        /\ \A b \in 1..Len(file_lists) :
              /\ {file_lists[b][i].file : i \in 1..Len(file_lists[b])} = C30_Bucket(b)
              /\ Len(file_lists[b]) = Cardinality(C30_Bucket(b))
              /\ \A i \in 1..(Len(file_lists[b]) - 1) :
                    NameLess(file_lists[b][i].file, file_lists[b][i + 1].file)
              /\ \A i \in 1..Len(file_lists[b]) :
                    file_lists[b][i].inpoint <=> (i = 1 /\ trim_start > 0)

\* C31 (as stated): every deferred hourly publication completes without an
\* error: the step that reads publish_delay goes on to the upload with the
\* stored delay (0 when the table is empty) as the offset from 18:00:00, and
\* the value stored afterwards is that offset plus one.
C31_StaggerDelay ==
    [][\A p \in Procs :
          /\ (pc[p] = "h_pub" /\ Exists(hourly[idx[p]]) /\ Deferred(now)
                /\ pc'[p] # "h_pub" /\ crashes' = crashes)
             => /\ pc'[p] = "h_delay"
                /\ delay_time'[p] = IF publish_delay = NoDelay THEN 0 ELSE publish_delay
          /\ (pc[p] = "h_delay" /\ pc'[p] = "h_upload")
             => publish_delay' = delay_time[p] + 1]_vars

\* C33 (as stated): a concatenation is run for a key only when the key's
\* combined file is not on disk and the key has no run record: for a day's AM
\* or PM file (no file, no row of daily_runs) and for an hour's file (no
\* file, no row of hourly_youtube_uploads).
C33_BothMustAgree ==
    [][\A p \in Procs :
          /\ (pc[p] = "d_concat" /\ crashes' = crashes
                /\ (pc'[p] # "d_concat" \/ idx'[p] # idx[p]))
             => /\ ~Exists(combined[day[p]][HalfSeq[idx[p]]])
                /\ DateStr(day[p]) \notin daily_runs
          /\ (pc[p] = "h_proc" /\ (hourly' # hourly \/ pc'[p] = "h_except"))
             => /\ ~Exists(hourly[idx[p]])
                /\ hourly_youtube_uploads[idx[p]] = 0]_vars

\* C36 (as stated): in every reachable state, two concurrent instances
\* included, hourly_youtube_uploads holds at most one row per (date, hour),
\* and a row only for an hour whose combined file was uploaded successfully.
C36_OneRowPerHour ==
    \A s \in Slots :
        /\ hourly_youtube_uploads[s] <= 1
        /\ hourly_youtube_uploads[s] > 0 => uploaded[HourlyKey(s)] > 0

\* C37 (as stated): an immediate hourly publication leaves the stored delay
\* at 0 (or leaves the table without a row, which is read as 0), and a
\* deferred publication that finds this completes with the offset 0, that is,
\* scheduled at exactly 18:00:00.
C37_ImmediateResets ==
    [][\A p \in Procs :
          /\ (pc[p] = "h_pub" /\ Exists(hourly[idx[p]]) /\ ~Deferred(now)
                /\ pc'[p] = "h_upload")
             => publish_delay' \in {0, NoDelay}
          /\ (pc[p] = "h_pub" /\ Exists(hourly[idx[p]]) /\ Deferred(now)
                /\ publish_delay \in {0, NoDelay} /\ pc'[p] # "h_pub")
             => /\ pc'[p] = "h_delay"
                /\ delay_time'[p] = 0]_vars

\* C34 (as stated): the end time the hourly processor computes is the
\* current time truncated to the hour minus exactly 3 hours, at every hour of
\* the day, the hours 0, 1 and 2 included.
C34_EndTimeLag ==
    \A p \in Procs : pc[p] = "h_check" => lim[p] = now - 3

\* C32 (as stated): whenever the main loop starts the daily aggregation for
\* a day, that day is the day before the current date, the hour is at least
\* process_hour, and no row of files that belongs to that day has the status
\* new or staged.
C32_ProcessHourGate ==
    [][\A p \in Procs :
          (pc[p] = "daily" /\ pc'[p] = "d_sync")
          => /\ day'[p] = Today(now) - 1
             /\ HourOf(now) >= 3
             /\ \A f \in Files :
                   FileDay(f) = day'[p] => files[f] \notin {"new", "staged"}]_vars

\* C39: once a file has the status processed, no step changes its status and
\* no step starts process_single_video for it, in any later pass and after a
\* termination and a restart with the file still in the staging directory.
C39_ProcessedIsFinal ==
    [][\A f \in Files :
          files[f] = "processed" => /\ files'[f] = "processed"
                                    /\ started'[f] = started[f]]_vars

\* A pass after a restart has gone through catalog_new_files and
\* process_new_files with the processed file still in the staging directory
\* and has left it out of its staged list.
C39_Witness ==
    \E f \in Files :
        /\ files[f] = "processed" /\ f \in staging /\ started[f] = 1
        /\ crashes = 1 /\ pc[1] = "daily" /\ f \notin passFiles[1]

\* C35: repeating a timestamp in the merger's input does not change the
\* result: the intervals computed from a list with repeated timestamps are
\* those computed from the list with each timestamp kept once.
C35_DuplicatesCollapse == (mphase = "distinct") => remerged = merged_intervals

\* A list with a repeated timestamp and a later, separate one: two intervals.
C35_Witness ==
    /\ mphase = "distinct"
    /\ Len(timestamps) = 3
    /\ timestamps[1] = timestamps[2] /\ timestamps[2] < timestamps[3]
    /\ Len(merged_intervals) = 2

\* C38: with the default parameters (10, 10, 10) and timestamps within the
\* video, the merged intervals of one source have pairwise distinct whole
\* start seconds, every interval has a clip file of its own, and the first run
\* writes a clip for every interval (none is skipped for an existing file).
C38_DistinctClipNames ==
    (mphase = "merged" /\ pre_buffer = 10 /\ post_buffer = 10 /\ min_gap = 10) =>
        /\ \A i \in 1..Len(merged_intervals) : \A j \in 1..Len(merged_intervals) :
              i # j => merged_intervals[i][1] # merged_intervals[j][1]
        /\ Cardinality(DOMAIN clip_writes) = Len(merged_intervals)
        /\ runs = 1 => Len(last_saved) = Len(merged_intervals)

\* Detections at 0, 21 and 42 s: three intervals, starting at 0, 11 and 32 s.
C38_Witness ==
    /\ mphase = "merged" /\ runs = 1
    /\ pre_buffer = 10 /\ post_buffer = 10 /\ min_gap = 10
    /\ timestamps = <<0, 21, 42>>
    /\ Len(merged_intervals) = 3
    /\ Len(last_saved) = 3

\* The places (list, position) at which a clip stands in the lists written.
C40_Places(n) ==
    {bi \in {1, 2} \X (1..Cardinality(all_clip_files)) :
        /\ bi[1] <= Len(file_lists)
        /\ bi[2] <= Len(file_lists[bi[1]])
        /\ file_lists[bi[1]][bi[2]].file = n}

\* C40: with two output files, every clip of the directory stands exactly
\* once in exactly one of the two lists, in the AM list when the hour of its
\* name is at most 12 and in the PM list when it is greater; the lists hold
\* nothing else, and each is in ascending file-name order.
C40_AmPmPartition ==
    (cphase = "done" /\ output_files = 2 /\ Len(file_lists) = 2) =>
        /\ \A n \in all_clip_files :
              /\ Cardinality(C40_Places(n)) = 1
              /\ \A bi \in C40_Places(n) : (bi[1] = 1) <=> (10 * n[1] + n[2] <= 12)
        /\ \A b \in 1..2 :
              /\ \A i \in 1..Len(file_lists[b]) : file_lists[b][i].file \in all_clip_files
              /\ \A i \in 1..(Len(file_lists[b]) - 1) :
                    NameLess(file_lists[b][i].file, file_lists[b][i + 1].file)

\* Clips of the hours 09, 12 and 13: those of 09 and 12 are in the AM list
\* in this order, the two clips of 13 in the PM list.
C40_Witness ==
    /\ cphase = "done" /\ output_files = 2 /\ Len(file_lists) = 2
    /\ Len(file_lists[1]) = 2 /\ Len(file_lists[2]) = 2
    /\ file_lists[1][1].file = <<0, 9, 0, 0, 3, 0>>
    /\ file_lists[1][2].file = <<1, 2, 0, 0, 0, 0>>
    /\ file_lists[2][1].file = <<1, 3, 0, 0, 0, 0>>
    /\ file_lists[2][2].file = <<1, 3, 0, 0, 3, 0>>

====
